---- MODULE Spec2Model ----
(***************************************************************************)
(* Device-session layer of the WaveForms SDK wrapper (src/src/lib.rs,      *)
(* src/src/macros.rs): Device::open / open_with_config, the DeviceHandle   *)
(* operations, close / close_ref / Drop, the call-translation macros and   *)
(* the last-error retrieval, over a model of the native library (libdwf).  *)
(*                                                                         *)
(* Granularity: one step per native call.  A wrapper operation is a        *)
(* sequence of such steps of one thread; what the wrapper does between two *)
(* native calls (the `?`, the match on the result, building the handle,    *)
(* the implicit drop) is part of the step that made the preceding call.    *)
(*                                                                         *)
(* Native library (extern, not part of the repository): every call may     *)
(* fail and then fills the global last-error slot; a successful call       *)
(* clears it; FDwfDeviceOpen on an index that is already opened fails      *)
(* with an error code that cannot be relied on (lib.rs:125-126).           *)
(***************************************************************************)
EXTENDS Integers, Sequences, FiniteSets, TLC

\* ---------------------------------------------------------------- bounds
NThreads == 2
NDevices == 1
MaxHandles == 2
MaxWire == 17

Threads == 1..NThreads
Devices == 0..(NDevices - 1)
Handles == 1..MaxHandles

\* ------------------------------------------------- Option<c_int> (lib.rs)
None == <<>>
Some(x) == <<x>>
IsSome(o) == o # None
Unwrapped(o) == o[1]

\* ------------------------------------------ native error codes (dwf.h)
dwfercNoErc == 0
dwfercUnknownError == 1
dwfercApiLockTimeout == 2
dwfercAlreadyOpened == 3
dwfercNotSupported == 4
dwfercInvalidParameter0 == 16
dwfercInvalidParameter1 == 17
dwfercInvalidParameter2 == 18
dwfercInvalidParameter3 == 19
dwfercInvalidParameter4 == 20

\* The last-error slot: one (code, message) pair for the whole process.
NoError == [code |-> dwfercNoErc, msg |-> ""]
\* What a failing native call may leave in the slot.
FailSlots == { [code |-> dwfercUnknownError, msg |-> "M1"],
               [code |-> dwfercApiLockTimeout, msg |-> "M2"] }

\* A mutant of ErrorCodeOf: the first pattern binds instead of comparing.
ErrorCodeOfFirstArmBinds(code) == <<"Unknown">>

\* WaveFormsErrorCode::get: the match on the code read from the slot.
ErrorCodeOf(code) ==
    CASE code = dwfercUnknownError -> <<"Unknown">>
      [] code = dwfercApiLockTimeout -> <<"ApiLockTimeout">>
      [] code = dwfercAlreadyOpened -> <<"AlreadyOpened">>
      [] code = dwfercNotSupported -> <<"NotSupported">>
      [] code = dwfercInvalidParameter0 -> <<"InvalidParameter", 0>>
      [] code = dwfercInvalidParameter1 -> <<"InvalidParameter", 1>>
      [] code = dwfercInvalidParameter2 -> <<"InvalidParameter", 2>>
      [] code = dwfercInvalidParameter3 -> <<"InvalidParameter", 3>>
      [] code = dwfercInvalidParameter4 -> <<"InvalidParameter", 4>>
      [] OTHER -> <<"Other">>

\* A mutant of LastErrorMsg: the message is never fetched (the zeroed buffer).
LastErrorMsgNotFetched(slot) == ""

\* WaveFormsError::get, the reason: FDwfGetLastErrorMsg into a zeroed buffer,
\* read back as a C string.  Messages are abstract tokens here.
LastErrorMsg(slot) == slot.msg

\* The error open substitutes for the native one (lib.rs:128-131, 144-147).
AlreadyOpenedError == [error_code |-> <<"AlreadyOpened">>,
                       reason |-> "device was already opened"]

Ok(v) == [ok |-> TRUE, val |-> v]
Err(e) == [ok |-> FALSE, err |-> e]

VARIABLES
    nativeOpen,   \* native: device index -> session id opened on it (0: none)
    lastErr,      \* native: the global last-error slot
    handles,      \* the DeviceHandle objects that exist (see NoHandle)
    pc,           \* per thread: where it stands inside its operation
    cur,          \* per thread: the operation in progress
    trace,        \* ghost, per thread: native calls of the operation in progress
    ev,           \* the return the last step made, if it made one: who, which
                  \* operation, its result, the native calls it made
    conv,         \* an enum conversion in progress (see NoConv)
    mc,           \* one macro invocation at one call site (see NoCall)
    sup,          \* a supported-set being built and listed (see NoSupport)
    inst,         \* one instrument view and the device behind it (see NoInstr)
    it,           \* one device enumeration or version query (see NoIter)
    play          \* one PatternGenerator::set_play_data call (see NoPlay)

sessionVars == <<nativeOpen, lastErr, handles, pc, cur, trace, ev>>
vars == <<sessionVars, conv, mc, sup, inst, it, play>>

\* A DeviceHandle: `handle` is the struct's only field (lib.rs:258-260); the
\* others are ghosts: the device index it was opened on, the session id open
\* returned, and the ids passed to FDwfDeviceClose on its behalf.  state
\* "none": there is no such object (not created yet, or dropped).
NoHandle == [state |-> "none", handle |-> None, dev |-> 0, hid |-> 0,
             closeIds |-> <<>>]
Live(h) == handles[h].state = "owned" /\ IsSome(handles[h].handle)

IdleCur == [op |-> "none", dev |-> 0, h |-> 0, stage |-> "none",
            code |-> <<>>, r |-> Ok(0), before |-> NoHandle]
NoEv == [t |-> 0, op |-> "none", outcome |-> "none", error_code |-> <<>>,
         reason |-> "", h |-> 0, dev |-> 0, calls |-> <<>>,
         before |-> NoHandle, was |-> NoHandle]

\* A conversion between a wire integer and a typed enum value: the enum type,
\* the integer that came from the native layer, what try_from made of it, and
\* what into made of that.
NoConv == [stage |-> "none", ty |-> "", wire |-> 0, typed |-> Ok(""), back |-> 0]

SessionInit ==
    /\ nativeOpen = [d \in Devices |-> 0]
    /\ lastErr = NoError
    /\ handles = [h \in Handles |-> NoHandle]
    /\ pc = [t \in Threads |-> "idle"]
    /\ cur = [t \in Threads |-> IdleCur]
    /\ trace = [t \in Threads |-> <<>>]
    /\ ev = NoEv

\* One invocation of a call-translation macro: the call site, what the native
\* function returned (res), what it wrote to the output slot (val), what it
\* left in the last-error slot, the macro's result, and what the method
\* around it returned.
NoCall == [stage |-> "none", site |-> "", res |-> 0, val |-> 0, slot |-> NoError,
           result |-> Ok(0), ret |-> Ok(0)]

\* A supported-set: the enum, the capability mask, the struct's boolean
\* fields, and the results of two as_enum_variants calls.
NoSupport == [stage |-> "none", ty |-> "", mask |-> 0, set |-> <<>>,
              variants |-> <<>>, again |-> <<>>]

\* An instrument view: the handle it is made from, the session identifier the
\* view copies, the native calls of the last method (calls: to the instrument,
\* with the flag the call returned in res; errcalls: the ones that fetch the
\* error) with its result, and the instruments of every session as the native
\* layer holds them, now (dev) and when the last method was entered (before).
NoInstr == [stage |-> "none", kind |-> "", handle |-> None, device_handle |-> 0,
            dev |-> <<>>, before |-> <<>>, op |-> "none", calls |-> <<>>,
            res |-> 1, errcalls |-> <<>>, ret |-> Ok(0), n |-> 0,
            chan |-> FALSE, released |-> {}]

\* An enumeration: what the native layer has to report (devs), the operation,
\* the count it obtained, the next index of the iterator, the native calls
\* made so far, the devices yielded, and how the last step ended.
NoIter == [stage |-> "none", op |-> "", devs |-> <<>>, count |-> 0, next |-> 0,
           calls |-> <<>>, yielded |-> <<>>, outcome |-> "none", failed |-> FALSE]

\* A set_play_data call: the length of the data (base-65536 digits, most
\* significant first), the bitrate, and the sample count given to the device.
NoPlay == [stage |-> "none", len |-> <<0, 0, 0>>, bitrate |-> "", outcome |-> "none",
           called |-> FALSE, wire |-> 0, sample_count |-> <<0, 0>>]

NoUnit == it = NoIter /\ play = NoPlay

Init ==
    /\ SessionInit
    /\ conv = NoConv /\ mc = NoCall /\ sup = NoSupport /\ inst = NoInstr
    /\ NoUnit

\* ------------------------------------------------------- native library
\* One native call's possible outcomes: the success flag, the value written to
\* the output slot, what the call leaves in the last-error slot, and the
\* sessions opened afterwards.
Outcome(ok, val, slot, nat) == [ok |-> ok, val |-> val, slot |-> slot, nat |-> nat]
Failures == { Outcome(FALSE, 0, e, nativeOpen) : e \in FailSlots }

\* The session id the native layer hands out next: the smallest one not in use.
FreeHdwf == CHOOSE i \in 1..(NDevices + 1) :
                /\ \A d \in Devices : nativeOpen[d] # i
                /\ \A j \in 1..(i - 1) : \E d \in Devices : nativeOpen[d] = j
SessionOpen(id) == \E d \in Devices : nativeOpen[d] = id

FDwfEnumDeviceIsOpened(d) ==
    { Outcome(TRUE, IF nativeOpen[d] # 0 THEN 1 ELSE 0, NoError, nativeOpen) }
        \cup Failures

\* FDwfDeviceOpen / FDwfDeviceConfigOpen.
FDwfDeviceOpen(d) ==
    IF nativeOpen[d] # 0
    THEN Failures
    ELSE { Outcome(TRUE, FreeHdwf, NoError, [nativeOpen EXCEPT ![d] = FreeHdwf]) }
             \cup Failures

FDwfDeviceClose(id) ==
    IF SessionOpen(id)
    THEN { Outcome(TRUE, 0, NoError,
                   [d \in Devices |-> IF nativeOpen[d] = id THEN 0 ELSE nativeOpen[d]]) }
             \cup Failures
    ELSE Failures

\* Any per-session native entry point (FDwfDeviceTrigger...).
FDwfSessionCall(id) ==
    IF SessionOpen(id)
    THEN { Outcome(TRUE, 0, NoError, nativeOpen) } \cup Failures
    ELSE Failures

\* FDwfDeviceTriggerGet: the trigger source configured on a pin, as its wire
\* integer: one the binding declares (1, trigsrcPC) or one it does not (6,
\* trigsrcDigitalOut).
TriggerGetReplies == {1, 6}
FDwfDeviceTriggerGet(id) ==
    IF SessionOpen(id)
    THEN { Outcome(TRUE, v, NoError, nativeOpen) : v \in TriggerGetReplies } \cup Failures
    ELSE Failures

\* ------------------------------------------------- typed enumerations
\* The closed-set enums the macros enum_only! and enum_and_support_bitfield!
\* generate: each table lists, in declaration order, the variants and the
\* wire integer of each (for the named constants: their values in the vendor
\* header dwf.h the bindings are generated from).
DetectFilter ==
    << <<"All", 0>>, <<"ElectronicsExplorer", 1>>, <<"AnalogDiscovery", 2>>,
       <<"AnalogDiscovery2", 3>>, <<"DigitalDiscovery", 4>> >>
DeviceType ==
    << <<"ElectronicsExplorer", 1>>, <<"AnalogDiscovery", 2>>,
       <<"AnalogDiscovery2", 3>>, <<"DigitalDiscovery", 4>>,
       <<"AnalogDiscoveryPro", 6>> >>
TriggerSource ==
    << <<"None", 0>>, <<"Pc", 1>>, <<"DetectorAnalogIn", 2>>,
       <<"DetectorDigitalIn", 3>>, <<"AnalogIn", 4>>, <<"DigitalIn", 5>>,
       <<"AnalogOut1", 7>>, <<"AnalogOut2", 8>>, <<"AnalogOut3", 9>>,
       <<"AnalogOut4", 10>>, <<"External", 11>>, <<"External2", 12>>,
       <<"External3", 13>>, <<"External4", 14>>, <<"High", 15>>, <<"Low", 16>> >>
AcquisitionMode ==
    << <<"Single", 0>>, <<"ScanShift", 1>>, <<"ScanScreen", 2>>, <<"Record", 3>>,
       <<"Overs", 4>>, <<"SingleWithoutRearm", 5>> >>
InstrumentState ==
    << <<"Ready", 0>>, <<"Armed", 1>>, <<"Done", 2>>, <<"Running", 3>>,
       <<"Config", 4>>, <<"Prefill", 5>>, <<"Wait", 7>> >>
TriggerType ==
    << <<"Edge", 0>>, <<"Pulse", 1>>, <<"Transition", 2>>, <<"Window", 3>> >>
TriggerCondition ==
    << <<"Edge", 0>>, <<"Pulse", 1>>, <<"Transition", 2>>, <<"Window", 3>> >>
TriggerLength == << <<"Less", 0>>, <<"Timeout", 1>>, <<"More", 2>> >>
SamplingSlope == << <<"Rise", 0>>, <<"Fall", 1>>, <<"Either", 2>> >>
Filter == << <<"Decimate", 0>>, <<"Average", 1>>, <<"MinMax", 2>> >>
ClockSource == << <<"Internal", 0>>, <<"External", 1>>, <<"External2", 2>> >>
SampleMode == << <<"Simple", 0>>, <<"Noise", 1>> >>
Bitrate ==
    << <<"One", 1>>, <<"Two", 2>>, <<"Four", 4>>, <<"Eight", 8>>, <<"Sixteen", 16>> >>
Mode ==
    << <<"PushPull", 0>>, <<"OpenDrain", 1>>, <<"OpenSource", 2>>, <<"Tristate", 3>> >>
Type ==
    << <<"Pulse", 0>>, <<"Custom", 1>>, <<"Random", 2>>, <<"ROM", 3>>,
       <<"State", 4>>, <<"Play", 5>> >>
Idle == << <<"Init", 0>>, <<"Low", 1>>, <<"High", 2>>, <<"Tristate", 3>> >>

EnumTypes ==
    { "DetectFilter", "DeviceType", "TriggerSource", "AcquisitionMode",
      "InstrumentState", "TriggerType", "TriggerCondition", "TriggerLength",
      "SamplingSlope", "Filter", "ClockSource", "SampleMode", "Bitrate", "Mode",
      "Type", "Idle" }
TableOf(ty) ==
    CASE ty = "DetectFilter" -> DetectFilter
      [] ty = "DeviceType" -> DeviceType
      [] ty = "TriggerSource" -> TriggerSource
      [] ty = "AcquisitionMode" -> AcquisitionMode
      [] ty = "InstrumentState" -> InstrumentState
      [] ty = "TriggerType" -> TriggerType
      [] ty = "TriggerCondition" -> TriggerCondition
      [] ty = "TriggerLength" -> TriggerLength
      [] ty = "SamplingSlope" -> SamplingSlope
      [] ty = "Filter" -> Filter
      [] ty = "ClockSource" -> ClockSource
      [] ty = "SampleMode" -> SampleMode
      [] ty = "Bitrate" -> Bitrate
      [] ty = "Mode" -> Mode
      [] ty = "Type" -> Type
      [] ty = "Idle" -> Idle
\* The enums whose wire type is unsigned (c_uchar, c_uint).
UnsignedWire == {"TriggerSource", "InstrumentState", "Bitrate"}
\* The integers the native layer may hand back for an enum of type ty.
WireInts(ty) == IF ty \in UnsignedWire THEN 0..MaxWire ELSE (0 - 1)..MaxWire
KnownWires(ty) == {TableOf(ty)[i][2] : i \in 1..Len(TableOf(ty))}

UnknownVariantError(ty, x) ==
    [error_code |-> <<"UnknownVariant">>,
     reason |-> "WaveForms SDK returned " \o ToString(x)
                    \o " which is not a known variant of " \o ty]

\* TryFrom<$ty> (macros.rs:104-115, 179-190): `match x { $($value =>
\* Ok(Self::$field),)* other => Err(UnknownVariant) }`; the first arm whose
\* value equals x is taken.
TryFrom(ty, x) ==
    LET tb == TableOf(ty)
        arms == {i \in 1..Len(tb) : tb[i][2] = x} IN
    IF arms = {}
    THEN Err(UnknownVariantError(ty, x))
    ELSE Ok(tb[CHOOSE i \in arms : \A j \in arms : i <= j][1])

\* A mutant of Into: the enum's discriminant (`self as $ty`) in place of the
\* match on the variants.
IntoDiscriminant(ty, v) ==
    (CHOOSE i \in 1..Len(TableOf(ty)) : TableOf(ty)[i][1] = v) - 1

\* Into<$ty> (macros.rs:117-123, 192-198): `match self { $(Self::$field =>
\* $value,)* }`.
Into(ty, v) ==
    LET tb == TableOf(ty) IN
    tb[CHOOSE i \in 1..Len(tb) : tb[i][1] = v][2]

\* The conversion of enums.rs:25-37, `impl Into<DeviceType> for c_int`: the
\* same arms as DeviceType and a last arm `_ => Unknown`.  It returns a plain
\* DeviceType, not a Result.
LegacyIntoDeviceType(x) ==
    LET arms == {i \in 1..Len(DeviceType) : DeviceType[i][2] = x} IN
    IF arms = {}
    THEN "Unknown"
    ELSE DeviceType[CHOOSE i \in arms : \A j \in arms : i <= j][1]

\* ------------------------------------------------ pieces of wrapper code
\* A mutant of OpenedCheck: the guard on the query's value is missing.
OpenedCheckNoGuard(r) == IF ~r.ok THEN "err" ELSE "proceed"
\* A mutant of OpenedCheck: a failed query is taken for "not opened".
OpenedCheckIgnoresFailure(r) ==
    IF ~r.ok THEN "proceed" ELSE IF r.val THEN "already" ELSE "proceed"

\* A mutant of OpenedCheck: the guard on the query's value is negated.
OpenedCheckNegated(r) ==
    IF ~r.ok THEN "err" ELSE IF r.val THEN "proceed" ELSE "already"

\* Device::open / open_with_config, what is done with get_bool!'s result:
\* `if get_bool!(FDwfEnumDeviceIsOpened self.index)? { return Err(AlreadyOpened) }`.
OpenedCheck(r) ==
    IF ~r.ok THEN "err" ELSE IF r.val THEN "already" ELSE "proceed"

\* A mutant of HandleFromOpen: the failure of the native open is dropped and
\* the zero left in the output slot becomes the handle.
HandleFromOpenIgnoresFailure(r) == Ok(Some(IF r.ok THEN r.val ELSE 0))

\* A mutant of HandleFromOpen: a failed native open still makes a handle, an
\* empty one.
HandleFromOpenNoneOnFailure(r) == IF r.ok THEN Ok(Some(r.val)) ELSE Ok(None)

\* Device::open / open_with_config, the tail:
\* `let handle = get_int!(FDwfDeviceOpen ..)?; Ok(DeviceHandle { handle: Some(handle) })`.
HandleFromOpen(r) == IF r.ok THEN Ok(Some(r.val)) ELSE r

\* A mutant of CloseRefTake: `self.handle = None` is missing.
CloseRefKeepsHandle(hv) ==
    [call |-> IsSome(hv), id |-> IF IsSome(hv) THEN Unwrapped(hv) ELSE 0, after |-> hv]
\* A mutant of CloseRefTake: the identifier is taken but never released.
CloseRefSkipsRelease(hv) == [call |-> FALSE, id |-> 0, after |-> None]

\* DeviceHandle::close_ref, up to the native call:
\* `if let Some(handle) = self.handle { self.handle = None; call!(FDwfDeviceClose handle) }
\*  else { Ok(()) }`.
CloseRefTake(hv) ==
    [call |-> IsSome(hv), id |-> IF IsSome(hv) THEN Unwrapped(hv) ELSE 0, after |-> None]

\* A mutant of DropOutcome: the result of close_ref is discarded.
DropOutcomeIgnored(r) == "ok"

\* Drop::drop: `self.close_ref().unwrap()`.
DropOutcome(r) == IF r.ok THEN "ok" ELSE "panic"

\* A mutant of UnwrapHandle: unwrap_or_default in place of unwrap.
UnwrapOrDefault(hv) == [panic |-> FALSE, id |-> IF IsSome(hv) THEN Unwrapped(hv) ELSE 0]

\* `self.handle.unwrap()`, the first thing every DeviceHandle operation evaluates.
UnwrapHandle(hv) == [panic |-> ~IsSome(hv), id |-> IF IsSome(hv) THEN Unwrapped(hv) ELSE 0]

\* The operations of DeviceHandle and the native entry point each one calls
\* ("" : none, the operation only builds a view around the identifier).
HandleOps == { "trigger_sources", "get_trigger", "set_trigger", "trigger_pc",
               "oscilloscope", "waveform_generator", "logic_analyzer",
               "pattern_generator", "protocols" }
OpFn(op) ==
    CASE op = "trigger_sources" -> "FDwfDeviceTriggerInfo"
      [] op = "get_trigger" -> "FDwfDeviceTriggerGet"
      [] op = "set_trigger" -> "FDwfDeviceTriggerSet"
      [] op = "trigger_pc" -> "FDwfDeviceTriggerPC"
      [] OTHER -> ""
OpenFn(op) == IF op = "open" THEN "FDwfDeviceOpen" ELSE "FDwfDeviceConfigOpen"
\* What the native entry point of operation op may do on session id.
OpNative(op, id) ==
    IF op = "get_trigger" THEN FDwfDeviceTriggerGet(id) ELSE FDwfSessionCall(id)
\* What the operation makes of the macro's result r: get_trigger converts the
\* integer (`.and_then(TriggerSource::try_from)`, lib.rs:272); the others
\* return r.
OpResult(op, r) ==
    IF op = "get_trigger" /\ r.ok THEN TryFrom("TriggerSource", r.val) ELSE r

\* --------------------------------------------------- call translation
\* What get_bool! / get_int! / call! make of a successful native call
\* (macros.rs:24, 44, 69): the output slot, as a boolean for get_bool!.
MacroValue(c, o) == IF c.stage = "query" THEN o.val # 0 ELSE o.val

NoErr == [error_code |-> <<>>, reason |-> ""]
ErrOf(r) == IF r.ok THEN NoErr ELSE r.err
InUse(h) == \E t \in Threads : pc[t] # "idle" /\ cur[t].h = h
\* Bound of the model: a DeviceHandle object is kept for every open in progress.
OpensInFlight == {u \in Threads : cur[u].op \in {"open", "open_with_config"}}
FreeHandles == {h \in Handles : handles[h].state = "none"}
NewHandle == CHOOSE h \in Handles : handles[h].state = "none"
Call(fn, arg, o) == [fn |-> fn, arg |-> arg, ok |-> o.ok, val |-> o.val, slot |-> o.slot]

\* The operation of thread t returns to its caller; calls are the native
\* calls it made, before the handle it was about as the operation found it,
\* was the same handle as the operation leaves it (for a handle whose life
\* ends: as it was dropped).
Return(t, c, outcome, e, h, calls, was) ==
    /\ pc' = [pc EXCEPT ![t] = "idle"]
    /\ cur' = [cur EXCEPT ![t] = IdleCur]
    /\ trace' = [trace EXCEPT ![t] = <<>>]
    /\ ev' = [t |-> t, op |-> c.op, outcome |-> outcome,
              error_code |-> e.error_code, reason |-> e.reason,
              h |-> h, dev |-> c.dev, calls |-> calls,
              before |-> c.before, was |-> was]

\* The operation of thread t goes on to its next native call.
GoOn(t, c, at, calls) ==
    /\ pc' = [pc EXCEPT ![t] = at]
    /\ cur' = [cur EXCEPT ![t] = c]
    /\ trace' = [trace EXCEPT ![t] = calls]
    /\ ev' = NoEv

\* The wrapper code that follows a macro's result r (Ok(value), or
\* Err(WaveFormsError::get())) in the operation c of thread t; hs are the
\* handles as the step leaves them, calls the native calls the operation
\* has made.
Finish(t, c, r, hs, calls) ==
    CASE c.stage = "query" ->
           \* Device::open / open_with_config, lib.rs:127-132 and 143-148
           LET k == OpenedCheck(r) IN
           /\ CASE k = "err" -> Return(t, c, "err", r.err, 0, calls, NoHandle)
                [] k = "already" ->
                     Return(t, c, "err", AlreadyOpenedError, 0, calls, NoHandle)
                [] OTHER -> GoOn(t, [c EXCEPT !.stage = "open"], "open_native", calls)
           /\ handles' = hs
      [] c.stage = "open" ->
           \* lib.rs:133-136 and 149-152
           LET hr == HandleFromOpen(r)
               h == NewHandle
               new == [NoHandle EXCEPT !.state = "owned", !.handle = hr.val,
                                       !.dev = c.dev,
                                       !.hid = IF r.ok THEN r.val ELSE 0] IN
           IF hr.ok
           THEN /\ Return(t, c, "ok", NoErr, h, calls, new)
                /\ handles' = [hs EXCEPT ![h] = new]
           ELSE /\ Return(t, c, "err", r.err, 0, calls, NoHandle)
                /\ handles' = hs
      [] c.stage = "op" ->
           \* a DeviceHandle operation returns what it makes of the macro's result
           LET res == OpResult(c.op, r) IN
           /\ Return(t, c, IF res.ok THEN "ok" ELSE "err", ErrOf(res), c.h, calls,
                     hs[c.h])
           /\ handles' = hs
      [] c.stage = "release" /\ c.op = "close" ->
           \* DeviceHandle::close: close_ref's result is kept while the
           \* consumed handle is dropped (lib.rs:341-343)
           /\ GoOn(t, [c EXCEPT !.r = r], "close_drop", calls)
           /\ handles' = hs
      [] c.stage = "release" /\ c.op = "drop" ->
           \* Drop::drop, lib.rs:355-359; the object is gone afterwards
           /\ Return(t, c, DropOutcome(r), ErrOf(r), c.h, calls, hs[c.h])
           /\ handles' = [hs EXCEPT ![c.h] = NoHandle]
      [] c.stage = "release" /\ c.op = "close_ref" ->
           /\ Return(t, c, IF r.ok THEN "ok" ELSE "err", ErrOf(r), c.h, calls, hs[c.h])
           /\ handles' = hs
      [] c.stage = "drop_after_close" ->
           \* the drop of the handle close consumed; close then returns c.r
           /\ IF DropOutcome(r) = "panic"
              THEN Return(t, c, "panic", ErrOf(r), c.h, calls, hs[c.h])
              ELSE Return(t, c, IF c.r.ok THEN "ok" ELSE "err", ErrOf(c.r), c.h,
                          calls, hs[c.h])
           /\ handles' = [hs EXCEPT ![c.h] = NoHandle]

\* One macro invocation (macros.rs:19-72): the native call and, when it
\* succeeds, the code that follows; when it fails, the thread goes on to
\* WaveFormsError::get().
NativeStep(t, c, fn, arg, outcomes, hs, before) ==
    \E o \in outcomes :
        /\ nativeOpen' = o.nat
        /\ lastErr' = o.slot
        /\ IF o.ok
           THEN Finish(t, c, Ok(MacroValue(c, o)), hs, Append(before, Call(fn, arg, o)))
           ELSE /\ GoOn(t, c, "err_code", Append(before, Call(fn, arg, o)))
                /\ handles' = hs

\* A step that calls nothing native.
NoNativeCall == UNCHANGED <<nativeOpen, lastErr>>

\* ------------------------------------------------------------- actions
NewCur(op, d, h, stage) ==
    [IdleCur EXCEPT !.op = op, !.dev = d, !.h = h, !.stage = stage,
                    !.before = IF h = 0 THEN NoHandle ELSE handles[h]]

\* Device::open (op = "open") and Device::open_with_config: the call begins
\* with get_bool!(FDwfEnumDeviceIsOpened self.index).
OpenStart(t, d, op) ==
    /\ pc[t] = "idle"
    /\ Cardinality(FreeHandles) > Cardinality(OpensInFlight)
    /\ NativeStep(t, NewCur(op, d, 0, "query"), "FDwfEnumDeviceIsOpened", d,
                  FDwfEnumDeviceIsOpened(d), handles, <<>>)
    /\ UNCHANGED <<conv, mc, sup, inst, it, play>>

\* get_int!(FDwfDeviceOpen self.index) / get_int!(FDwfDeviceConfigOpen ..).
OpenNative(t) ==
    /\ pc[t] = "open_native"
    /\ NativeStep(t, cur[t], OpenFn(cur[t].op), cur[t].dev,
                  FDwfDeviceOpen(cur[t].dev), handles, trace[t])
    /\ UNCHANGED <<conv, mc, sup, inst, it, play>>

\* An operation of DeviceHandle (lib.rs:264-336) on a handle the caller holds.
HandleOp(t, h, op) ==
    /\ pc[t] = "idle"
    /\ handles[h].state = "owned"
    /\ ~InUse(h)
    /\ LET u == UnwrapHandle(handles[h].handle)
           c == NewCur(op, handles[h].dev, h, "op") IN
       IF u.panic
       THEN /\ NoNativeCall
            /\ Return(t, c, "panic", NoErr, h, <<>>, handles[h])
            /\ handles' = handles
       ELSE IF OpFn(op) = ""
       THEN /\ NoNativeCall
            /\ Return(t, c, "ok", NoErr, h, <<>>, handles[h])
            /\ handles' = handles
       ELSE NativeStep(t, c, OpFn(op), u.id, OpNative(op, u.id), handles, <<>>)
    /\ UNCHANGED <<conv, mc, sup, inst, it, play>>

\* close_ref run on handle h by thread t in operation c (lib.rs:345-352).
RunCloseRef(t, c, h, before) ==
    LET k == CloseRefTake(handles[h].handle)
        hs == [handles EXCEPT ![h].handle = k.after,
                              ![h].closeIds = IF k.call THEN Append(@, k.id) ELSE @] IN
    IF k.call
    THEN NativeStep(t, c, "FDwfDeviceClose", k.id, FDwfDeviceClose(k.id), hs, before)
    ELSE /\ NoNativeCall
         /\ Finish(t, c, Ok(0), hs, before)

\* DeviceHandle::close (op = "close"), the drop of a handle that was not
\* closed (op = "drop"), and close_ref on a borrowed handle (op = "close_ref").
ReleaseStart(t, h, op) ==
    /\ pc[t] = "idle"
    /\ handles[h].state = "owned"
    /\ ~InUse(h)
    /\ RunCloseRef(t, NewCur(op, handles[h].dev, h, "release"), h, <<>>)
    /\ UNCHANGED <<conv, mc, sup, inst, it, play>>

\* The end of DeviceHandle::close: the handle it consumed is dropped.
CloseDrop(t) ==
    /\ pc[t] = "close_drop"
    /\ RunCloseRef(t, [cur[t] EXCEPT !.stage = "drop_after_close"], cur[t].h, trace[t])
    /\ UNCHANGED <<conv, mc, sup, inst, it, play>>

\* WaveFormsErrorCode::get (lib.rs:83-102): FDwfGetLastError and the match.
ReadErrCode(t) ==
    /\ pc[t] = "err_code"
    /\ pc' = [pc EXCEPT ![t] = "err_msg"]
    /\ cur' = [cur EXCEPT ![t].code = ErrorCodeOf(lastErr.code)]
    /\ trace' = [trace EXCEPT ![t] = Append(@, [fn |-> "FDwfGetLastError", arg |-> 0,
                                               ok |-> TRUE, val |-> lastErr.code,
                                               slot |-> lastErr])]
    /\ ev' = NoEv
    /\ UNCHANGED <<nativeOpen, lastErr, handles, conv, mc, sup, inst, it, play>>

\* WaveFormsError::get (lib.rs:66-79), the reason: FDwfGetLastErrorMsg; the
\* macro then returns Err(..) to the code that invoked it.
ReadErrMsg(t) ==
    /\ pc[t] = "err_msg"
    /\ Finish(t, cur[t],
              Err([error_code |-> cur[t].code, reason |-> LastErrorMsg(lastErr)]),
              handles,
              Append(trace[t], [fn |-> "FDwfGetLastErrorMsg", arg |-> 0, ok |-> TRUE,
                                val |-> 0, slot |-> lastErr]))
    /\ UNCHANGED <<nativeOpen, lastErr, conv, mc, sup, inst, it, play>>

ThreadNext(t) ==
    \/ \E d \in Devices, op \in {"open", "open_with_config"} : OpenStart(t, d, op)
    \/ OpenNative(t)
    \/ \E h \in Handles, op \in HandleOps : HandleOp(t, h, op)
    \/ \E h \in Handles, op \in {"close", "drop", "close_ref"} : ReleaseStart(t, h, op)
    \/ CloseDrop(t)
    \/ ReadErrCode(t)
    \/ ReadErrMsg(t)

Next == \E t \in Threads : ThreadNext(t)
Spec == Init /\ [][Next]_vars

\* One caller: every operation runs to its end before the next one begins.
NextSeq == ThreadNext(1)
SpecSeq == Init /\ [][NextSeq]_vars

\* ------------------------------------------- enum conversions at work
\* An integer arrives from the native layer for an enum-typed parameter.
InitEnum ==
    /\ SessionInit
    /\ conv \in { [NoConv EXCEPT !.stage = "wire", !.ty = ty, !.wire = x] :
                      ty \in EnumTypes, x \in (0 - 1)..MaxWire }
    /\ conv.wire \in WireInts(conv.ty)
    /\ mc = NoCall /\ sup = NoSupport /\ inst = NoInstr /\ NoUnit

\* The wrapper converts it: Enum::try_from(x).
TryFromStep ==
    /\ conv.stage = "wire"
    /\ conv' = [conv EXCEPT !.stage = "typed", !.typed = TryFrom(conv.ty, conv.wire)]
    /\ UNCHANGED <<sessionVars, mc, sup, inst, it, play>>

\* The typed value goes back to the native layer: value.into().
IntoStep ==
    /\ conv.stage = "typed"
    /\ conv.typed.ok
    /\ conv' = [conv EXCEPT !.stage = "int", !.back = Into(conv.ty, conv.typed.val)]
    /\ UNCHANGED <<sessionVars, mc, sup, inst, it, play>>

\* The same integer converted the older way: `let ty: DeviceType = x.into()`.
LegacyIntoStep ==
    /\ conv.stage = "wire"
    /\ conv.ty = "DeviceType"
    /\ conv' = [conv EXCEPT !.stage = "legacy",
                            !.typed = Ok(LegacyIntoDeviceType(conv.wire))]
    /\ UNCHANGED <<sessionVars, mc, sup, inst, it, play>>

NextEnum == TryFromStep \/ IntoStep \/ LegacyIntoStep
SpecEnum == InitEnum /\ [][NextEnum]_vars

(***************************************************************************)
(* The call-translation macros and the methods built on them, one          *)
(* invocation at a time.                                                   *)
(***************************************************************************)
MaxErc == 21

\* What a native function may return as its success flag (a C int).
ResValues == {0 - 1, 0, 1, 2}

\* The macro tests the flag against zero.
SucceededIfPositive(res) == res > 0

Succeeded(res) == res # 0

\* The value inside Ok, by macro.
MacroOk(macro, val) ==
    CASE macro \in {"call", "set_true", "set_false"} -> <<>>
      [] macro = "get_bool" -> (val # 0)
      [] OTHER -> val

\* WaveFormsError::get(): the kind from the code, the reason from the message.
WaveFormsErrorGet(slot) ==
    [error_code |-> ErrorCodeOf(slot.code), reason |-> LastErrorMsg(slot)]

MacroResult(macro, res, val, slot) ==
    IF Succeeded(res) THEN Ok(MacroOk(macro, val)) ELSE Err(WaveFormsErrorGet(slot))

\* The call sites: the macro each uses, and what the method does with the
\* macro's result: nothing ("none"), .and_then(T::try_from) ("try_from"), or
\* T::from inside Ok / .map ("from").
Site(name, macro, post, ty) == [name |-> name, macro |-> macro, post |-> post, ty |-> ty]

CallSites ==
    { Site("Oscilloscope::reset", "call", "none", ""),
      Site("Oscilloscope::start", "set_true", "none", ""),
      Site("Oscilloscope::stop", "set_false", "none", ""),
      Site("digital::Channel::get_initial_divider", "get_int", "none", ""),
      Site("analog::Channel::get_attenuation", "get_float", "none", ""),
      Site("analog::Channel::is_enabled", "get_bool", "none", ""),
      Site("DeviceHandle::get_trigger", "get_int", "try_from", "TriggerSource"),
      Site("Oscilloscope::state", "get_int", "try_from", "InstrumentState"),
      Site("Oscilloscope::fetch", "get_int", "try_from", "InstrumentState"),
      Site("Oscilloscope::get_acquisition_mode", "get_int", "try_from", "AcquisitionMode"),
      Site("Oscilloscope::get_sampling_source", "get_int", "try_from", "TriggerSource"),
      Site("Oscilloscope::get_sampling_slope", "get_int", "try_from", "SamplingSlope"),
      Site("Oscilloscope::get_trigger_source", "get_int", "try_from", "TriggerSource"),
      Site("Oscilloscope::get_trigger_type", "get_int", "try_from", "TriggerType"),
      Site("Oscilloscope::get_trigger_filter", "get_int", "try_from", "Filter"),
      Site("Oscilloscope::get_trigger_condition", "get_int", "try_from", "SamplingSlope"),
      Site("Oscilloscope::get_trigger_length_condition", "get_int", "try_from", "TriggerLength"),
      Site("analog::Channel::get_filter", "get_int", "try_from", "Filter"),
      Site("LogicAnalyzer::state", "get_int", "from", "InstrumentState"),
      Site("LogicAnalyzer::get_clock_source", "get_int", "from", "ClockSource"),
      Site("LogicAnalyzer::get_sample_mode", "get_int", "from", "SampleMode"),
      Site("LogicAnalyzer::get_acquisition_mode", "get_int", "from", "AcquisitionMode"),
      Site("PatternGenerator::state", "get_int", "from", "InstrumentState"),
      Site("digital::Channel::get_mode", "get_int", "from", "Mode"),
      Site("digital::Channel::get_type", "get_int", "from", "Type"),
      Site("digital::Channel::get_idle", "get_int", "from", "Idle") }

SiteOf(name) == CHOOSE c \in CallSites : c.name = name

Variants(ty) == {TableOf(ty)[i][1] : i \in 1..Len(TableOf(ty))}

\* T::from(x) for a closed-set enum T. The macros generate TryFrom and Into
\* only, so nothing in the crate defines it; the result type of the callers
\* fixes what it can be: a variant of T, or no return at all. For a declared
\* integer it is that variant; for any other integer every variant and the
\* panic are possible. It cannot be an Err, since the callers wrap it in Ok.
Panic == "panic"

EnumFrom(ty, x) ==
    LET r == TryFrom(ty, x) IN
    IF r.ok THEN {r.val} ELSE Variants(ty) \cup {Panic}

InitCall ==
    /\ SessionInit
    /\ conv = NoConv /\ sup = NoSupport /\ inst = NoInstr /\ NoUnit
    /\ \E c \in CallSites, res \in ResValues :
          \E val \in IF Succeeded(res)
                     THEN IF c.post = "none" THEN (0 - 1)..2 ELSE WireInts(c.ty)
                     ELSE {0, 1} :
             \E code \in IF Succeeded(res) THEN {dwfercNoErc} ELSE 0..MaxErc :
                mc = [stage |-> "args", site |-> c.name, res |-> res, val |-> val,
                      slot |-> [code |-> code, msg |-> IF code = dwfercNoErc THEN "" ELSE "M1"],
                      result |-> Ok(0), ret |-> Ok(0)]

\* The macro: the native call has returned res, val and the error slot.
MacroStep ==
    /\ mc.stage = "args"
    /\ mc' = [mc EXCEPT !.stage = "macro",
                        !.result = MacroResult(SiteOf(mc.site).macro, mc.res, mc.val, mc.slot)]
    /\ UNCHANGED <<sessionVars, conv, sup, inst, it, play>>

\* The rest of a method that returns the macro's result as it is, or feeds
\* it to try_from with and_then.
ReturnStep ==
    /\ mc.stage = "macro"
    /\ SiteOf(mc.site).post \in {"none", "try_from"}
    /\ mc' = [mc EXCEPT !.stage = "returned",
                        !.ret = IF SiteOf(mc.site).post = "try_from" /\ mc.result.ok
                                THEN TryFrom(SiteOf(mc.site).ty, mc.result.val)
                                ELSE mc.result]
    /\ UNCHANGED <<sessionVars, conv, sup, inst, it, play>>

\* The rest of a method that applies T::from to the value and wraps it in Ok.
ReturnFromStep ==
    /\ mc.stage = "macro"
    /\ SiteOf(mc.site).post = "from"
    /\ IF mc.result.ok
       THEN \E v \in EnumFrom(SiteOf(mc.site).ty, mc.result.val) :
               mc' = IF v = Panic
                     THEN [mc EXCEPT !.stage = "panicked"]
                     ELSE [mc EXCEPT !.stage = "returned", !.ret = Ok(v)]
       ELSE mc' = [mc EXCEPT !.stage = "returned", !.ret = mc.result]
    /\ UNCHANGED <<sessionVars, conv, sup, inst, it, play>>

NextCall == MacroStep \/ ReturnStep \/ ReturnFromStep
SpecCall == InitCall /\ [][NextCall]_vars

(***************************************************************************)
(* Supported-sets: the struct of booleans enum_and_support_bitfield!       *)
(* declares next to each enum, built from a capability mask.               *)
(***************************************************************************)
MaxMask == 8

BitfieldTypes ==
    {"TriggerSource", "AcquisitionMode", "TriggerType", "TriggerCondition",
     "TriggerLength", "SamplingSlope", "Filter", "ClockSource", "SampleMode",
     "Mode", "Type", "Idle"}

\* Capability masks (c_int): the small ones, all bits set (-1), all bits but
\* bit 0 (-2), and every single-bit mask a wire value can name.
MaskValues == ((0 - 2)..MaxMask) \cup {2^k : k \in 0..MaxWire}

\* x & y on two's complement integers.
RECURSIVE BitAnd(_, _)
BitAnd(x, y) ==
    IF x = 0 \/ y = 0 THEN 0
    ELSE IF x = 0 - 1 THEN y
    ELSE IF y = 0 - 1 THEN x
    ELSE (x % 2) * (y % 2) + 2 * BitAnd(x \div 2, y \div 2)

\* x << k, for the shifts that stay inside a c_int.
Shl(x, k) == x * 2^k

\* The fields are named after the variants (in snake case); the model keys
\* them by the variant.
SupportedFromNoShift(ty, x) ==
    [v \in Variants(ty) |-> BitAnd(x, Into(ty, v)) # 0 \/ Into(ty, v) = 0]

SupportedFromAnyBit(ty, x) ==
    [v \in Variants(ty) |-> x # 0 \/ Into(ty, v) = 0]

SupportedFromNoZeroRule(ty, x) ==
    [v \in Variants(ty) |-> BitAnd(x, Shl(1, Into(ty, v))) # 0]

SupportedFrom(ty, x) ==
    [v \in Variants(ty) |-> BitAnd(x, Shl(1, Into(ty, v))) # 0 \/ Into(ty, v) = 0]

\* as_enum_variants: one `if field { vec.push(variant) }` per declared
\* variant, in the order of the declaration.
RECURSIVE PushFrom(_, _, _, _)
PushFrom(ty, s, i, vec) ==
    IF i > Len(TableOf(ty)) THEN vec
    ELSE PushFrom(ty, s, i + 1,
                  IF s[TableOf(ty)[i][1]] THEN Append(vec, TableOf(ty)[i][1]) ELSE vec)

RECURSIVE PushFront(_, _, _, _)
PushFront(ty, s, i, vec) ==
    IF i > Len(TableOf(ty)) THEN vec
    ELSE PushFront(ty, s, i + 1,
                   IF s[TableOf(ty)[i][1]] THEN <<TableOf(ty)[i][1]>> \o vec ELSE vec)

AsEnumVariantsReversed(ty, s) == PushFront(ty, s, 1, <<>>)

AsEnumVariants(ty, s) == PushFrom(ty, s, 1, <<>>)

InitSupport ==
    /\ SessionInit
    /\ conv = NoConv /\ mc = NoCall /\ inst = NoInstr /\ NoUnit
    /\ \E ty \in BitfieldTypes, mask \in MaskValues :
          sup = [NoSupport EXCEPT !.stage = "mask", !.ty = ty, !.mask = mask]

\* SupportedXs::from(mask)
FromStep ==
    /\ sup.stage = "mask"
    /\ sup' = [sup EXCEPT !.stage = "built", !.set = SupportedFrom(sup.ty, sup.mask)]
    /\ UNCHANGED <<sessionVars, conv, mc, inst, it, play>>

\* The fields are pub: the owner of a supported-set may write one.
SetFieldStep ==
    /\ sup.stage = "built"
    /\ \E v \in Variants(sup.ty), b \in BOOLEAN :
          /\ sup.set[v] # b
          /\ sup' = [sup EXCEPT !.stage = "edited", !.set[v] = b]
    /\ UNCHANGED <<sessionVars, conv, mc, inst, it, play>>

\* as_enum_variants(&self), called once and then once more.
AsEnumVariantsStep ==
    /\ \/ /\ sup.stage \in {"built", "edited"}
          /\ sup' = [sup EXCEPT !.stage = "listed",
                                !.variants = AsEnumVariants(sup.ty, sup.set)]
       \/ /\ sup.stage = "listed"
          /\ sup' = [sup EXCEPT !.stage = "relisted",
                                !.again = AsEnumVariants(sup.ty, sup.set)]
    /\ UNCHANGED <<sessionVars, conv, mc, inst, it, play>>

NextSupport == FromStep \/ SetFieldStep \/ AsEnumVariantsStep
SpecSupport == InitSupport /\ [][NextSupport]_vars

(***************************************************************************)
(* Instrument views and their start / stop / state / fetch / reset.        *)
(***************************************************************************)
MaxOps == 2

Sessions == 1..(NDevices + 1)
Kinds == {"Oscilloscope", "WaveformGenerator", "LogicAnalyzer", "PatternGenerator",
          "Protocols"}

\* What the device reports as an instrument's status: the seven declared
\* values and 6, which InstrumentState does not declare.
StatusValues == 0..7

Method(macro, fn, extra, post) == [macro |-> macro, fn |-> fn, extra |-> extra, post |-> post]

OpsOf(kind) ==
    CASE kind = "Oscilloscope" -> {"reset", "start", "stop", "state", "fetch"}
      [] kind = "LogicAnalyzer" -> {"reset", "start", "stop", "state"}
      [] kind = "PatternGenerator" -> {"reset", "start", "stop", "state"}
      [] kind = "WaveformGenerator" -> {"reset"}
      [] OTHER -> {}

\* A mutant of MethodOf: state() written with fetch()'s arguments.
MethodOfStateReadsData(kind, op) ==
    CASE kind = "Oscilloscope" /\ op = "reset" -> Method("call", "FDwfAnalogInReset", <<>>, "none")
      [] kind = "Oscilloscope" /\ op = "start" -> Method("set_true", "FDwfAnalogInConfigure", <<0>>, "none")
      [] kind = "Oscilloscope" /\ op = "stop" -> Method("set_false", "FDwfAnalogInConfigure", <<0>>, "none")
      [] kind = "Oscilloscope" /\ op = "state" -> Method("get_int", "FDwfAnalogInStatus", <<1>>, "try_from")
      [] kind = "Oscilloscope" /\ op = "fetch" -> Method("get_int", "FDwfAnalogInStatus", <<1>>, "try_from")
      [] kind = "LogicAnalyzer" /\ op = "reset" -> Method("call", "FDwfDigitalInReset", <<>>, "none")
      [] kind = "LogicAnalyzer" /\ op = "start" -> Method("set_true", "FDwfDigitalInConfigure", <<0>>, "none")
      [] kind = "LogicAnalyzer" /\ op = "stop" -> Method("set_false", "FDwfDigitalInConfigure", <<0>>, "none")
      [] kind = "LogicAnalyzer" /\ op = "state" -> Method("get_int", "FDwfDigitalInStatus", <<1>>, "from")
      [] kind = "PatternGenerator" /\ op = "reset" -> Method("call", "FDwfDigitalOutReset", <<>>, "none")
      [] kind = "PatternGenerator" /\ op = "start" -> Method("set_true", "FDwfDigitalOutConfigure", <<>>, "none")
      [] kind = "PatternGenerator" /\ op = "stop" -> Method("set_false", "FDwfDigitalOutConfigure", <<>>, "none")
      [] kind = "PatternGenerator" /\ op = "state" -> Method("get_int", "FDwfDigitalOutStatus", <<>>, "from")
      [] OTHER -> Method("call", "FDwfAnalogOutReset", <<0 - 1>>, "none")

\* Each method: its macro, the native function, the arguments written after
\* the session identifier, and what is done with the macro's result.
MethodOf(kind, op) ==
    CASE kind = "Oscilloscope" /\ op = "reset" -> Method("call", "FDwfAnalogInReset", <<>>, "none")
      [] kind = "Oscilloscope" /\ op = "start" -> Method("set_true", "FDwfAnalogInConfigure", <<0>>, "none")
      [] kind = "Oscilloscope" /\ op = "stop" -> Method("set_false", "FDwfAnalogInConfigure", <<0>>, "none")
      [] kind = "Oscilloscope" /\ op = "state" -> Method("get_int", "FDwfAnalogInStatus", <<0>>, "try_from")
      [] kind = "Oscilloscope" /\ op = "fetch" -> Method("get_int", "FDwfAnalogInStatus", <<1>>, "try_from")
      [] kind = "LogicAnalyzer" /\ op = "reset" -> Method("call", "FDwfDigitalInReset", <<>>, "none")
      [] kind = "LogicAnalyzer" /\ op = "start" -> Method("set_true", "FDwfDigitalInConfigure", <<0>>, "none")
      [] kind = "LogicAnalyzer" /\ op = "stop" -> Method("set_false", "FDwfDigitalInConfigure", <<0>>, "none")
      [] kind = "LogicAnalyzer" /\ op = "state" -> Method("get_int", "FDwfDigitalInStatus", <<0>>, "from")
      [] kind = "PatternGenerator" /\ op = "reset" -> Method("call", "FDwfDigitalOutReset", <<>>, "none")
      [] kind = "PatternGenerator" /\ op = "start" -> Method("set_true", "FDwfDigitalOutConfigure", <<>>, "none")
      [] kind = "PatternGenerator" /\ op = "stop" -> Method("set_false", "FDwfDigitalOutConfigure", <<>>, "none")
      [] kind = "PatternGenerator" /\ op = "state" -> Method("get_int", "FDwfDigitalOutStatus", <<>>, "from")
      [] OTHER -> Method("call", "FDwfAnalogOutReset", <<0 - 1>>, "none")

\* A mutant of NativeArgs: set_false! passes 1 as set_true! does.
NativeArgsFlagFixedTrue(macro, h, extra) ==
    <<h>> \o extra \o (IF macro \in {"set_true", "set_false"} THEN <<1>> ELSE <<>>)

\* The argument list the macro writes: the caller's arguments, then the fixed
\* flag of set_true! / set_false! (the output slot of the queries is left out).
NativeArgs(macro, h, extra) ==
    <<h>> \o extra \o
        (IF macro = "set_true" THEN <<1>> ELSE IF macro = "set_false" THEN <<0>> ELSE <<>>)

\* The native layer's side: a configure records its last argument as the run
\* flag, a reset returns the instrument to Ready, a status query with the
\* read-data argument set transfers the samples; a failing call does nothing.
ConfigureFns == {"FDwfAnalogInConfigure", "FDwfDigitalInConfigure", "FDwfDigitalOutConfigure"}
ResetFns == {"FDwfAnalogInReset", "FDwfAnalogOutReset", "FDwfDigitalInReset", "FDwfDigitalOutReset"}
ReadDataStatusFns == {"FDwfAnalogInStatus", "FDwfDigitalInStatus"}

NativeApply(dev, fn, args, res) ==
    LET h == args[1] IN
    IF res = 0 \/ h \notin DOMAIN dev THEN dev
    ELSE IF fn \in ConfigureFns THEN [dev EXCEPT ![h].run = args[Len(args)]]
    ELSE IF fn \in ResetFns THEN [dev EXCEPT ![h].status = 0, ![h].run = 0]
    ELSE IF fn \in ReadDataStatusFns /\ args[2] # 0
         THEN [dev EXCEPT ![h].transfers = @ + 1]
    ELSE dev

NativeOut(dev, fn, args) ==
    IF fn \in ConfigureFns \cup ResetFns \/ args[1] \notin DOMAIN dev
    THEN 0 ELSE dev[args[1]].status

\* The native calls behind WaveFormsError::get(), made by the macro when the
\* flag is zero: the code, then the message.
ErrorCalls(res) ==
    IF Succeeded(res) THEN <<>> ELSE <<"FDwfGetLastError", "FDwfGetLastErrorMsg">>

\* A mutant of MacroCalls: a failing call is made a second time.
MacroCallsRetry(fn, args, res) ==
    IF Succeeded(res) THEN <<[fn |-> fn, args |-> args]>>
    ELSE <<[fn |-> fn, args |-> args], [fn |-> fn, args |-> args]>>

\* The macro invokes the native function once, whatever it returns.
MacroCalls(fn, args, res) == <<[fn |-> fn, args |-> args]>>

\* What the method returns for the macro's result r.
PostResults(post, r) ==
    IF ~r.ok \/ post = "none" THEN {r}
    ELSE IF post = "try_from" THEN {TryFrom("InstrumentState", r.val)}
    ELSE {IF v = Panic THEN Err(Panic) ELSE Ok(v) : v \in EnumFrom("InstrumentState", r.val)}

InitInstr ==
    /\ SessionInit
    /\ conv = NoConv /\ mc = NoCall /\ sup = NoSupport /\ NoUnit
    /\ \E id \in Sessions, kind \in Kinds :
          inst = [NoInstr EXCEPT
                    !.stage = "handle", !.kind = kind, !.handle = Some(id),
                    !.dev = [s \in Sessions |-> [status |-> 0, run |-> 0, transfers |-> 0]],
                    !.before = [s \in Sessions |-> [status |-> 0, run |-> 0, transfers |-> 0]]]

\* A mutant of HandleBorrowed: views and channels without the 'handle link.
HandleBorrowedNever(v) == FALSE

\* The view is made from `&'handle mut self` and carries 'handle in its
\* PhantomData, and so does a Channel: while one of them is still to be used
\* the handle stays mutably borrowed, and the compiler accepts neither a
\* second view nor close (which takes self) nor the end of the handle's scope.
HandleBorrowed(v) == v.stage = "view" \/ v.chan

\* DeviceHandle::oscilloscope / waveform_generator / logic_analyzer /
\* pattern_generator / protocols: the view copies the unwrapped identifier.
ViewStep ==
    /\ inst.stage = "handle"
    /\ ~HandleBorrowed(inst)
    /\ ~UnwrapHandle(inst.handle).panic
    /\ inst' = [inst EXCEPT !.stage = "view",
                            !.device_handle = UnwrapHandle(inst.handle).id]
    /\ UNCHANGED <<sessionVars, conv, mc, sup, it, play>>

\* One method of the view, with the native call it makes.
MethodStep ==
    /\ inst.stage = "view"
    /\ inst.n < MaxOps
    /\ \E op \in OpsOf(inst.kind), res \in {0, 1}, slot \in FailSlots :
          LET md == MethodOf(inst.kind, op)
              args == NativeArgs(md.macro, inst.device_handle, md.extra)
              r == MacroResult(md.macro, res, NativeOut(inst.dev, md.fn, args), slot)
          IN  \E ret \in PostResults(md.post, r) :
                 inst' = [inst EXCEPT
                            !.op = op, !.n = @ + 1,
                            !.calls = MacroCalls(md.fn, args, res),
                            !.res = res,
                            !.errcalls = ErrorCalls(res),
                            !.before = inst.dev,
                            !.dev = NativeApply(inst.dev, md.fn, args, res),
                            !.ret = ret]
    /\ UNCHANGED <<sessionVars, conv, mc, sup, it, play>>

\* The instrument moves on by itself between two methods of the caller.
DeviceStep ==
    /\ inst.stage = "view"
    /\ \E st \in StatusValues :
          /\ st # inst.dev[inst.device_handle].status
          /\ inst' = [inst EXCEPT !.dev[inst.device_handle].status = st,
                                  !.before = inst.dev,
                                  !.op = "none", !.calls = <<>>, !.res = 1,
                                  !.errcalls = <<>>, !.ret = Ok(0)]
    /\ UNCHANGED <<sessionVars, conv, mc, sup, it, play>>

\* The instruments that hand out channels, and one method of a Channel.
ChannelKinds == {"Oscilloscope", "WaveformGenerator", "PatternGenerator"}

ChannelCountFn(kind) ==
    CASE kind = "Oscilloscope" -> "FDwfAnalogInChannelCount"
      [] kind = "WaveformGenerator" -> "FDwfAnalogOutCount"
      [] OTHER -> "FDwfDigitalOutCount"

ChannelMethodOf(kind) ==
    CASE kind = "Oscilloscope" -> Method("set_true", "FDwfAnalogInChannelEnableSet", <<0>>, "none")
      [] kind = "WaveformGenerator" -> Method("call", "FDwfAnalogOutReset", <<0>>, "none")
      [] OTHER -> Method("set_true", "FDwfDigitalOutEnableSet", <<0>>, "none")

\* channels(): the count query, then one Channel per index, each with a copy
\* of the view's identifier.
ChannelsStep ==
    /\ inst.stage = "view"
    /\ inst.kind \in ChannelKinds
    /\ ~inst.chan
    /\ inst.n < MaxOps
    /\ \E res \in {0, 1}, slot \in FailSlots :
          LET fn == ChannelCountFn(inst.kind)
              args == NativeArgs("get_int", inst.device_handle, <<>>)
              r == MacroResult("get_int", res, 1, slot)
          IN  inst' = [inst EXCEPT
                         !.op = "channels", !.n = @ + 1,
                         !.calls = MacroCalls(fn, args, res),
                         !.res = res, !.errcalls = ErrorCalls(res),
                         !.before = inst.dev,
                         !.ret = IF r.ok THEN Ok(<<>>) ELSE r,
                         !.chan = r.ok]
    /\ UNCHANGED <<sessionVars, conv, mc, sup, it, play>>

\* One method of a Channel (channel 0).
ChannelMethodStep ==
    /\ inst.chan
    /\ inst.n < MaxOps
    /\ \E res \in {0, 1}, slot \in FailSlots :
          LET md == ChannelMethodOf(inst.kind)
              args == NativeArgs(md.macro, inst.device_handle, md.extra)
          IN  inst' = [inst EXCEPT
                         !.op = "channel", !.n = @ + 1,
                         !.calls = MacroCalls(md.fn, args, res),
                         !.res = res, !.errcalls = ErrorCalls(res),
                         !.before = inst.dev,
                         !.ret = MacroResult(md.macro, res, 0, slot)]
    /\ UNCHANGED <<sessionVars, conv, mc, sup, it, play>>

\* The view is used for the last time. The channels of a PatternGenerator
\* borrow the view (digital/gen.rs:98), so they end before it.
ViewEndStep ==
    /\ inst.stage = "view"
    /\ inst.kind = "PatternGenerator" => ~inst.chan
    /\ inst' = [inst EXCEPT !.stage = "handle"]
    /\ UNCHANGED <<sessionVars, conv, mc, sup, it, play>>

\* The channels are used for the last time.
ChannelEndStep ==
    /\ inst.chan
    /\ inst' = [inst EXCEPT !.chan = FALSE]
    /\ UNCHANGED <<sessionVars, conv, mc, sup, it, play>>

\* close() or the drop of the handle, which the compiler accepts only once
\* the borrow has ended: close_ref takes the identifier and releases it.
CloseStep ==
    /\ ~HandleBorrowed(inst)
    /\ IsSome(inst.handle)
    /\ \E res \in {0, 1} :
          inst' = [inst EXCEPT
                     !.handle = None,
                     !.op = "close",
                     !.calls = MacroCalls("FDwfDeviceClose", <<Unwrapped(inst.handle)>>, res),
                     !.res = res, !.errcalls = ErrorCalls(res),
                     !.before = inst.dev,
                     !.ret = Ok(0),
                     !.released = IF Succeeded(res) THEN @ \cup {Unwrapped(inst.handle)} ELSE @]
    /\ UNCHANGED <<sessionVars, conv, mc, sup, it, play>>

NextInstr ==
    \/ ViewStep \/ MethodStep \/ DeviceStep
    \/ ChannelsStep \/ ChannelMethodStep \/ ViewEndStep \/ ChannelEndStep \/ CloseStep
SpecInstr == InitInstr /\ [][NextInstr]_vars

(***************************************************************************)
(* Device enumeration (iter_devices) and the version query.                *)
(***************************************************************************)
MaxEnum == 2
MaxConfigs == 1

\* The device-type codes the native layer may report: the declared ones and
\* 5, which DeviceType does not declare.
DeviceIds == KnownWires("DeviceType") \cup {5}

\* What is attached: for each index, the type code and the number of
\* configurations.
NativeDevs ==
    UNION { [1..n -> [id : DeviceIds, configs : 0..MaxConfigs]] : n \in 0..MaxEnum }

\* A mutant of IndexRange: 0..=device_count.
IndexRangeInclusive(count) == 0..count

\* (0..device_count)
IndexRange(count) == 0..(count - 1)

\* The ten FDwfEnumConfigInfo queries of one configuration (DECI...).
ConfigInfoCount == 10

\* The native queries the closure makes for device idx with cc
\* configurations, in order; DeviceType::try_from comes after the first
\* 2 + 10 * cc of them.
ClosureCalls(idx, cc) ==
    <<<<"FDwfEnumDeviceType", idx, 0>>, <<"FDwfEnumConfig", idx, 0>>>>
    \o [i \in 1..(cc * ConfigInfoCount) |->
           <<"FDwfEnumConfigInfo", (i - 1) \div ConfigInfoCount,
             ((i - 1) % ConfigInfoCount) + 1>>]
    \o <<<<"FDwfEnumUserName", idx, 0>>, <<"FDwfEnumDeviceName", idx, 0>>,
         <<"FDwfEnumSN", idx, 0>>>>

CallsBeforeTryFrom(cc) == 2 + cc * ConfigInfoCount

RetrievalCalls == <<<<"FDwfGetLastError", 0, 0>>, <<"FDwfGetLastErrorMsg", 0, 0>>>>

\* `.unwrap()` on a Result: the value, or a panic.
UnwrapOutcome(r) == IF r.ok THEN "ok" ELSE "panic"

\* FDwfEnum(DetectFilter::All.into())
EnumCall == <<"FDwfEnum", Into("DetectFilter", "All"), 0>>

\* The count query failed: its call is followed by the error retrieval.
CountQueryFailed == it.calls = <<EnumCall>> \o RetrievalCalls

InitIter ==
    /\ SessionInit
    /\ conv = NoConv /\ mc = NoCall /\ sup = NoSupport /\ inst = NoInstr /\ play = NoPlay
    /\ \E devs \in NativeDevs, op \in {"iter_devices", "version"} :
          it = [NoIter EXCEPT !.stage = "start", !.op = op, !.devs = devs]

\* iter_devices(), up to the iterator it returns:
\* get_int!(FDwfEnum DetectFilter::All.into()).unwrap()
EnumStep ==
    /\ it.stage = "start"
    /\ it.op = "iter_devices"
    /\ \E res \in {0, 1}, slot \in FailSlots :
          LET r == MacroResult("get_int", res, Len(it.devs), slot)
          IN  it' = [it EXCEPT
                       !.stage = IF UnwrapOutcome(r) = "ok" THEN "iter" ELSE "panicked",
                       !.count = IF r.ok THEN r.val ELSE 0,
                       !.calls = <<EnumCall>> \o (IF r.ok THEN <<>> ELSE RetrievalCalls),
                       !.outcome = UnwrapOutcome(r),
                       !.failed = ~r.ok]
    /\ UNCHANGED <<sessionVars, conv, mc, sup, inst, play>>

\* One next() on the iterator: None past the last index, otherwise the
\* closure for the next index, every query of which is unwrapped. Between
\* the count and this step the device may have gone (its queries then fail).
NextStep ==
    /\ it.stage = "iter"
    /\ IF it.next \notin IndexRange(it.count)
       THEN it' = [it EXCEPT !.stage = "done", !.outcome = "ok"]
       ELSE LET idx == it.next
                present == idx + 1 \in DOMAIN it.devs
                cc == IF present THEN it.devs[idx + 1].configs ELSE 0
                calls == ClosureCalls(idx, cc)
                pre == CallsBeforeTryFrom(cc)
                ty == IF present THEN TryFrom("DeviceType", it.devs[idx + 1].id)
                      ELSE Ok("")
            IN  \E f \in 0..Len(calls) :
                   /\ ~present => f = 1
                   /\ IF f # 0 /\ (f <= pre \/ ty.ok)
                      THEN \* the f-th query fails
                           it' = [it EXCEPT
                                    !.stage = "panicked", !.outcome = "panic",
                                    !.failed = TRUE,
                                    !.calls = @ \o SubSeq(calls, 1, f) \o RetrievalCalls]
                      ELSE IF ~ty.ok
                      THEN \* DeviceType::try_from(id).unwrap()
                           /\ f = 0
                           /\ it' = [it EXCEPT
                                       !.stage = "panicked",
                                       !.outcome = UnwrapOutcome(ty),
                                       !.failed = TRUE,
                                       !.calls = @ \o SubSeq(calls, 1, pre)]
                      ELSE it' = [it EXCEPT
                                    !.next = @ + 1, !.outcome = "ok",
                                    !.calls = @ \o calls,
                                    !.yielded = Append(@, [index |-> idx, ty |-> ty.val,
                                                           configs |-> cc])]
    /\ UNCHANGED <<sessionVars, conv, mc, sup, inst, play>>

\* version(): get_string!(FDwfGetVersion).unwrap()
VersionStep ==
    /\ it.stage = "start"
    /\ it.op = "version"
    /\ \E res \in {0, 1}, slot \in FailSlots :
          LET r == MacroResult("get_string", res, 0, slot) IN
          it' = [it EXCEPT
                   !.stage = IF UnwrapOutcome(r) = "ok" THEN "done" ELSE "panicked",
                   !.calls = <<<<"FDwfGetVersion", 0, 0>>>> \o
                                (IF r.ok THEN <<>> ELSE RetrievalCalls),
                   !.outcome = UnwrapOutcome(r),
                   !.failed = ~r.ok]
    /\ UNCHANGED <<sessionVars, conv, mc, sup, inst, play>>

NextIter == EnumStep \/ NextStep \/ VersionStep
SpecIter == InitIter /\ [][NextIter]_vars

(***************************************************************************)
(* PatternGenerator::set_play_data: the sample count.                      *)
(*                                                                         *)
(* A c_uint has 32 bits and a usize up to 64; numbers are kept as base-    *)
(* 65536 digits, most significant first: two digits for a c_uint, three    *)
(* for a data length.                                                      *)
(***************************************************************************)
Limb == 65536
MaxTop == 1

\* The digits the lengths are drawn from: around zero, around the points at
\* which the products by 8, 4 and 2 leave 32 bits, and the largest digit.
LenDigits == {0, 1, 2, 3, 8191, 8192, 16384, 32768, Limb - 1}

DataLens == {<<t, h, l>> : t \in 0..MaxTop, h \in LenDigits, l \in LenDigits}

\* `data.len() as c_uint`: the low 32 bits.
AsCUint(len) == <<len[2], len[3]>>

\* x * k in c_uint arithmetic, k a small factor: the wrapped product and
\* whether the exact product left 32 bits.
MulU32(x, k) ==
    LET lo == x[2] * k
        hi == x[1] * k + (lo \div Limb)
    IN  [overflow |-> hi >= Limb, val |-> <<hi % Limb, lo % Limb>>]

\* x / k in c_uint arithmetic.
DivU32(x, k) ==
    <<x[1] \div k, (((x[1] % k) * Limb) + x[2]) \div k>>

\* A mutant of SampleCountOf: `* 8u32` whatever the bitrate.
SampleCountOfTimesEight(len, bitrate) ==
    IF bitrate = "Sixteen"
    THEN [overflow |-> FALSE, val |-> DivU32(AsCUint(len), 2)]
    ELSE MulU32(AsCUint(len), 8)

\* let sample_count = if bitrate == Bitrate::Sixteen { data.len() as c_uint / 2 }
\*                    else { data.len() as c_uint * (8u32 / bitrate.into()) }
SampleCountOf(len, bitrate) ==
    IF bitrate = "Sixteen"
    THEN [overflow |-> FALSE, val |-> DivU32(AsCUint(len), 2)]
    ELSE MulU32(AsCUint(len), 8 \div Into("Bitrate", bitrate))

InitPlay ==
    /\ SessionInit
    /\ conv = NoConv /\ mc = NoCall /\ sup = NoSupport /\ inst = NoInstr /\ it = NoIter
    /\ \E len \in DataLens, bitrate \in Variants("Bitrate") :
          play = [NoPlay EXCEPT !.stage = "start", !.len = len, !.bitrate = bitrate]

\* set_play_data(data, bitrate). A product that leaves 32 bits panics in a
\* build with overflow checks and wraps in one without; the native call is
\* made with the wire value of the bitrate and the count.
SetPlayDataStep ==
    /\ play.stage = "start"
    /\ \E overflow_checks \in BOOLEAN, res \in {0, 1}, slot \in FailSlots :
          LET c == SampleCountOf(play.len, play.bitrate)
              r == MacroResult("call", res, 0, slot)
          IN  IF c.overflow /\ overflow_checks
              THEN play' = [play EXCEPT !.stage = "done", !.outcome = "panic"]
              ELSE play' = [play EXCEPT
                              !.stage = "done",
                              !.outcome = IF r.ok THEN "ok" ELSE "err",
                              !.called = TRUE,
                              !.wire = Into("Bitrate", play.bitrate),
                              !.sample_count = c.val]
    /\ UNCHANGED <<sessionVars, conv, mc, sup, inst, it>>

NextPlay == SetPlayDataStep
SpecPlay == InitPlay /\ [][NextPlay]_vars

\* ------------------------------------------------------------ properties
IsOpenOp(op) == op \in {"open", "open_with_config"}
LiveOn(d) == {h \in Handles : Live(h) /\ handles[h].dev = d}

\* C1: whatever the interleaving of open, open_with_config, close and drop by
\* the callers, no device index ever has more than one live DeviceHandle (a
\* handle that exists and still holds a session identifier).
C1_AtMostOneLiveHandle == \A d \in Devices : Cardinality(LiveOn(d)) <= 1

\* C1, its case: an open whose is-opened query reported "not opened" lost the
\* race to another caller; the native open was attempted, failed, and the
\* device has its one live handle, the other caller's.
C1_Witness ==
    /\ IsOpenOp(ev.op) /\ ev.outcome = "err"
    /\ Len(ev.calls) >= 2
    /\ ev.calls[1].ok /\ ev.calls[1].val = 0
    /\ ev.calls[2].fn = OpenFn(ev.op) /\ ~ev.calls[2].ok
    /\ Cardinality(LiveOn(ev.dev)) = 1

\* C2: one caller; Device::open on an index that has a live handle (opened
\* before and not closed) returns an error, of kind AlreadyOpened whenever the
\* is-opened query itself went through, and made no native call but that
\* query; the first handle is untouched: it still holds the identifier open
\* returned, that session is the one open on the index, and no release was
\* issued for it, so its operations reach the native layer as before.
C2_SecondOpenAlreadyOpened ==
    \A h \in LiveOn(ev.dev) :
        (ev.op = "open" /\ h # ev.h) =>
            /\ ev.outcome = "err"
            /\ ev.calls[1].ok =>
                   /\ ev.error_code = <<"AlreadyOpened">>
                   /\ Len(ev.calls) = 1
            /\ handles[h].handle = Some(handles[h].hid)
            /\ nativeOpen[ev.dev] = handles[h].hid
            /\ handles[h].closeIds = <<>>

\* C2, its case: the second open has just returned AlreadyOpened while the
\* first handle is live.
C2_Witness ==
    /\ ev.op = "open" /\ ev.outcome = "err"
    /\ ev.error_code = <<"AlreadyOpened">>
    /\ ev.reason = "device was already opened"
    /\ \E h \in LiveOn(ev.dev) : nativeOpen[ev.dev] = handles[h].hid

IsNativeOpen(fn) == fn \in {"FDwfDeviceOpen", "FDwfDeviceConfigOpen"}
\* In the native calls of one operation, a native open is the second call and
\* follows a successful is-opened query on the same index that said "no".
OpenAfterQuery(calls) ==
    \A i \in 1..Len(calls) :
        IsNativeOpen(calls[i].fn) =>
            /\ i = 2
            /\ calls[1].fn = "FDwfEnumDeviceIsOpened"
            /\ calls[1].ok /\ calls[1].val = 0
            /\ calls[1].arg = calls[i].arg

\* C3: in open and in open_with_config the first native call is the is-opened
\* query; the native open (FDwfDeviceOpen, resp. FDwfDeviceConfigOpen) is
\* issued only after that query succeeded and reported "not opened"; when the
\* query reports "opened" the operation returns AlreadyOpened having called
\* nothing else.
C3_QueryBeforeNativeOpen ==
    /\ \A t \in Threads : OpenAfterQuery(trace[t])
    /\ OpenAfterQuery(ev.calls)
    /\ IsOpenOp(ev.op) =>
           /\ ev.calls[1].fn = "FDwfEnumDeviceIsOpened"
           /\ ev.calls[1].arg = ev.dev
           /\ \A i \in 1..Len(ev.calls) :
                  IsNativeOpen(ev.calls[i].fn) => ev.calls[i].fn = OpenFn(ev.op)
           /\ (ev.calls[1].ok /\ ev.calls[1].val = 1) =>
                  /\ ev.outcome = "err"
                  /\ ev.error_code = <<"AlreadyOpened">>
                  /\ Len(ev.calls) = 1

\* C3, its case: open_with_config went through: the query said "not opened",
\* then FDwfDeviceConfigOpen was called and returned the session.
C3_Witness ==
    /\ ev.op = "open_with_config" /\ ev.outcome = "ok"
    /\ Len(ev.calls) = 2
    /\ ev.calls[1].ok /\ ev.calls[1].val = 0
    /\ ev.calls[2].fn = "FDwfDeviceConfigOpen" /\ ev.calls[2].ok

\* The FDwfDeviceClose calls among the native calls of one operation.
Releases(calls) == {i \in 1..Len(calls) : calls[i].fn = "FDwfDeviceClose"}
ReleaseOps == {"close", "drop", "close_ref"}

\* C4: when the life of a handle ends (close returns, or the handle is
\* dropped), FDwfDeviceClose has been issued for it exactly once, with the
\* identifier open returned; and at no time has it been issued more than once.
C4_ReleasedExactlyOnce ==
    /\ \A h \in Handles : Len(handles[h].closeIds) <= 1
    /\ ev.op \in {"close", "drop"} => ev.was.closeIds = <<ev.was.hid>>

\* C4, its case: an explicit close followed by the drop of the consumed
\* handle has ended a handle's life with one FDwfDeviceClose.
C4_Witness ==
    /\ ev.op = "close" /\ ev.outcome = "ok"
    /\ Cardinality(Releases(ev.calls)) = 1
    /\ ev.was.closeIds = <<ev.was.hid>>
    /\ handles[ev.h].state = "none"

\* C5: when the release path (close_ref, run by close and by drop) runs on a
\* handle on which it has already run, it calls nothing native and reports
\* success, whether the first run succeeded or not; so an explicit close makes
\* one FDwfDeviceClose call at most, and the drop of the handle it consumed
\* neither releases again nor panics.
C5_SecondReleaseIsNoOp ==
    /\ (ev.op \in ReleaseOps /\ ev.before.closeIds # <<>>) =>
           /\ ev.calls = <<>>
           /\ ev.outcome = "ok"
           /\ ev.was.closeIds = ev.before.closeIds
    /\ ev.op = "close" =>
           /\ Cardinality(Releases(ev.calls)) <= 1
           /\ ev.outcome # "panic"

\* C5, its case: the first release (by close) failed, and the drop of the
\* consumed handle that followed released nothing and did not fail: close
\* returned the error of its one FDwfDeviceClose call.
C5_Witness ==
    /\ ev.op = "close" /\ ev.outcome = "err"
    /\ ev.before.closeIds = <<>>
    /\ Cardinality(Releases(ev.calls)) = 1
    /\ ~ev.calls[1].ok
    /\ handles[ev.h].state = "none"

\* C6: an operation of DeviceHandle invoked on a handle whose identifier has
\* been taken by the release path fails (`self.handle.unwrap()` panics on
\* None) before it calls anything native: no call carries the stale
\* identifier.
C6_InertAfterClose ==
    (ev.op \in HandleOps /\ ~IsSome(ev.before.handle)) =>
        /\ ev.outcome = "panic"
        /\ ev.calls = <<>>
        /\ ev.was = ev.before

\* C6, its case: set_trigger on a handle whose session was released.
C6_Witness ==
    /\ ev.op = "set_trigger"
    /\ ~IsSome(ev.before.handle)
    /\ ev.before.closeIds = <<ev.before.hid>>
    /\ ev.outcome = "panic"

FailedReleases(calls) == {i \in Releases(calls) : ~calls[i].ok}

\* C7: when FDwfDeviceClose fails, an explicit close returns the error read
\* for that call to its caller as a value (Err, no panic), and the drop of a
\* handle that was not closed panics; in neither case does the operation end
\* as if the release had succeeded.
C7_ReleaseFailureSurfaces ==
    \A i \in FailedReleases(ev.calls) :
        /\ ev.op = "close" =>
               /\ ev.outcome = "err"
               /\ ev.error_code = ErrorCodeOf(ev.calls[i].slot.code)
               /\ ev.reason = ev.calls[i].slot.msg
        /\ ev.op = "drop" => ev.outcome = "panic"
        /\ ev.outcome # "ok"

\* C7, its case: a handle dropped without close, FDwfDeviceClose failed, the
\* drop panicked.
C7_Witness ==
    /\ ev.op = "drop" /\ ev.outcome = "panic"
    /\ IsSome(ev.before.handle)
    /\ FailedReleases(ev.calls) # {}

\* The native calls of an operation that failed (wrapper calls only; the two
\* error-retrieval calls are not among them).
IsRetrieval(fn) == fn \in {"FDwfGetLastError", "FDwfGetLastErrorMsg"}
FailedCalls(calls) == {i \in 1..Len(calls) : ~IsRetrieval(calls[i].fn) /\ ~calls[i].ok}
\* The error an operation returned is the one its failing call A left in the
\* slot, and the two reads directly follow A among the operation's calls.
CarriesErrorOf(e, i) ==
    /\ Len(e.calls) >= i + 2
    /\ e.calls[i + 1].fn = "FDwfGetLastError"
    /\ e.calls[i + 2].fn = "FDwfGetLastErrorMsg"
    /\ e.calls[i + 1].slot = e.calls[i].slot
    /\ e.calls[i + 2].slot = e.calls[i].slot
    /\ e.error_code = ErrorCodeOf(e.calls[i].slot.code)
    /\ e.reason = e.calls[i].slot.msg

\* C8: one caller; the error a failing call A ends in carries the code and the
\* message the last-error slot held for A: between A and the two reads the
\* slot is not written, the reads directly follow A, and the error returned
\* is built from what A left there.
C8_ErrorIsOfFailingCall ==
    /\ pc[1] \in {"err_code", "err_msg"} =>
           \E i \in FailedCalls(trace[1]) :
               /\ lastErr = trace[1][i].slot
               /\ \A j \in (i + 1)..Len(trace[1]) : IsRetrieval(trace[1][j].fn)
    /\ \A i \in FailedCalls(ev.calls) : CarriesErrorOf(ev, i)
    /\ (ev.outcome \in {"err", "panic"} /\ FailedCalls(ev.calls) = {}) =>
           \/ IsOpenOp(ev.op) /\ ev.error_code = <<"AlreadyOpened">>
           \/ ev.op \in HandleOps /\ ev.outcome = "panic"
           \/ ev.op = "get_trigger" /\ ev.error_code = <<"UnknownVariant">>

\* C8, its case: an operation has returned the error of its failing call.
C8_Witness ==
    /\ ev.op = "get_trigger" /\ ev.outcome = "err"
    /\ FailedCalls(ev.calls) = {1}
    /\ ev.calls[1].slot.code = dwfercApiLockTimeout
    /\ ev.error_code = <<"ApiLockTimeout">> /\ ev.reason = "M2"

\* C9: with two threads, every error returned is the one of the call that
\* failed: no native call of another thread comes between a failing call and
\* the reads of its code and message.
C9_ErrorRetrievalAtomic ==
    \A i \in FailedCalls(ev.calls) :
        /\ ev.calls[i + 1].slot = ev.calls[i].slot
        /\ ev.calls[i + 2].slot = ev.calls[i].slot

\* C10: for every enum the macros generate and every variant it declares, the
\* variant's wire integer is accepted by try_from, and into applied to the
\* typed value gives back that integer; more generally every integer try_from
\* accepts comes back unchanged from into.
C10_WireRoundTrip ==
    /\ (conv.stage \in {"typed", "int"} /\ conv.wire \in KnownWires(conv.ty)) =>
           conv.typed.ok
    /\ conv.stage = "int" => conv.back = conv.wire

\* C10, its case: DeviceType, wire integer 6 (AnalogDiscoveryPro, the fifth
\* variant), converted and converted back.
C10_Witness ==
    /\ conv.stage = "int" /\ conv.ty = "DeviceType"
    /\ conv.wire = 6
    /\ conv.typed = Ok("AnalogDiscoveryPro")
    /\ conv.back = 6

IsUnknownVariant(r) == ~r.ok /\ r.err.error_code = <<"UnknownVariant">>

\* C11: whichever conversion from a wire integer to a typed enum value is
\* used, an integer that is the wire value of no declared variant makes it
\* fail with UnknownVariant; no variant is ever produced for it.
C11_UnknownIntegerRejected ==
    (conv.stage \in {"typed", "legacy"} /\ conv.wire \notin KnownWires(conv.ty)) =>
        IsUnknownVariant(conv.typed)

\* C11, the part of it that holds: the try_from the macros enum_only! and
\* enum_and_support_bitfield! generate rejects every such integer, naming the
\* integer and the enum in the reason.
C11_TryFromRejectsUnknown ==
    (conv.stage = "typed" /\ conv.wire \notin KnownWires(conv.ty)) =>
        /\ IsUnknownVariant(conv.typed)
        /\ conv.typed.err = UnknownVariantError(conv.ty, conv.wire)

\* C12: at every query of a closed-set enum, when the native call succeeds
\* and reports an integer that is no variant's wire value, the method returns
\* the unknown-variant error.
C12_QueriesRejectUnknown ==
    (/\ mc.stage \in {"returned", "panicked"}
     /\ SiteOf(mc.site).post # "none"
     /\ Succeeded(mc.res)
     /\ mc.val \notin KnownWires(SiteOf(mc.site).ty)) =>
        (mc.stage = "returned" /\ IsUnknownVariant(mc.ret))

\* C12, the part of it that holds: the queries that convert with try_from
\* return the unknown-variant error that names the type and the integer.
C12_TryFromQueriesRejectUnknown ==
    (/\ mc.stage = "returned"
     /\ SiteOf(mc.site).post = "try_from"
     /\ Succeeded(mc.res)
     /\ mc.val \notin KnownWires(SiteOf(mc.site).ty)) =>
        mc.ret = Err(UnknownVariantError(SiteOf(mc.site).ty, mc.val))

\* Bit k of a two's complement integer, by arithmetic.
Bit(x, k) ==
    IF x >= 0 THEN (x \div 2^k) % 2 = 1 ELSE ((0 - (x + 1)) \div 2^k) % 2 = 0

DeclIndex(ty, v) == CHOOSE i \in 1..Len(TableOf(ty)) : TableOf(ty)[i][1] = v

\* C13: in the supported-set built from a mask, the field of variant V is
\* true whenever the mask has bit k set and k is V's wire value.
C13_SetBitMeansSupported ==
    sup.stage = "built" =>
        \A i \in 1..Len(TableOf(sup.ty)) :
            Bit(sup.mask, TableOf(sup.ty)[i][2]) => sup.set[TableOf(sup.ty)[i][1]]

C13_Witness ==
    /\ sup.stage = "built"
    /\ sup.mask \notin {0 - 1, 0 - 2}
    /\ \E i \in 1..Len(TableOf(sup.ty)) :
          /\ TableOf(sup.ty)[i][2] > 2
          /\ Bit(sup.mask, TableOf(sup.ty)[i][2])
          /\ sup.set[TableOf(sup.ty)[i][1]]

\* C14: in the supported-set built from any mask, the field of the variant
\* whose wire value is 0 is true, also when bit 0 of the mask is clear.
C14_WireZeroAlwaysSupported ==
    sup.stage = "built" =>
        \A i \in 1..Len(TableOf(sup.ty)) :
            TableOf(sup.ty)[i][2] = 0 => sup.set[TableOf(sup.ty)[i][1]]

C14_Witness ==
    /\ sup.stage = "built"
    /\ ~Bit(sup.mask, 0)
    /\ \E i \in 1..Len(TableOf(sup.ty)) :
          TableOf(sup.ty)[i][2] = 0 /\ sup.set[TableOf(sup.ty)[i][1]]

\* C15: as_enum_variants lists exactly the variants whose field is true,
\* each once and in declaration order, leaves the supported-set as it was,
\* and gives the same list when called again.
C15_AsEnumVariantsExact ==
    sup.stage \in {"listed", "relisted"} =>
        /\ {sup.variants[i] : i \in 1..Len(sup.variants)} =
              {v \in Variants(sup.ty) : sup.set[v]}
        /\ \A i, j \in 1..Len(sup.variants) :
              i < j => DeclIndex(sup.ty, sup.variants[i]) < DeclIndex(sup.ty, sup.variants[j])
        /\ sup.stage = "relisted" => sup.again = sup.variants

C15_Witness ==
    /\ sup.stage = "relisted"
    /\ Len(sup.variants) >= 2
    /\ \E v \in Variants(sup.ty) : ~sup.set[v]
    /\ \E v \in Variants(sup.ty) : Into(sup.ty, v) = 0 /\ ~sup.set[v]

\* C16: whatever the macro, its result is Ok exactly when the native flag is
\* nonzero and Err exactly when it is zero; an Ok integer (or floating-point)
\* query carries the value of the output slot, an Ok boolean query is true
\* exactly when that value is nonzero.
C16_ResultFollowsFlag ==
    mc.stage \in {"macro", "returned", "panicked"} =>
        /\ mc.result.ok <=> (mc.res # 0)
        /\ (mc.res # 0 /\ SiteOf(mc.site).macro \in {"get_int", "get_float"}) =>
              mc.result = [ok |-> TRUE, val |-> mc.val]
        /\ (mc.res # 0 /\ SiteOf(mc.site).macro = "get_bool") =>
              mc.result = [ok |-> TRUE, val |-> (mc.val # 0)]
        /\ (mc.res = 0) => ("err" \in DOMAIN mc.result)

C16_Witness ==
    /\ mc.stage = "returned"
    /\ SiteOf(mc.site).macro = "get_bool"
    /\ mc.res = 0 - 1
    /\ mc.val = 2
    /\ mc.result = [ok |-> TRUE, val |-> TRUE]

InvalidParameterCodes ==
    {dwfercInvalidParameter0, dwfercInvalidParameter1, dwfercInvalidParameter2,
     dwfercInvalidParameter3, dwfercInvalidParameter4}

\* C17: the kind of a failing call's error is a function of the last-error
\* code: the five named codes give their kinds, the invalid-parameter codes
\* give InvalidParameter with their index, every other code gives Other, and
\* no code gives UnknownVariant.
C17_KindFollowsCode ==
    (mc.stage \in {"macro", "returned"} /\ mc.res = 0) =>
        LET code == mc.slot.code
            kind == mc.result.err.error_code
        IN  /\ (code = dwfercUnknownError) => kind = <<"Unknown">>
            /\ (code = dwfercApiLockTimeout) => kind = <<"ApiLockTimeout">>
            /\ (code = dwfercAlreadyOpened) => kind = <<"AlreadyOpened">>
            /\ (code = dwfercNotSupported) => kind = <<"NotSupported">>
            /\ (code \in InvalidParameterCodes) =>
                  kind = <<"InvalidParameter", code - dwfercInvalidParameter0>>
            /\ (code \notin InvalidParameterCodes \cup
                    {dwfercUnknownError, dwfercApiLockTimeout,
                     dwfercAlreadyOpened, dwfercNotSupported}) => kind = <<"Other">>
            /\ kind # <<"UnknownVariant">>
            /\ mc.stage = "returned" => mc.ret = mc.result

C17_Witness ==
    /\ mc.stage = "returned"
    /\ mc.res = 0
    /\ mc.slot.code = dwfercInvalidParameter3
    /\ mc.ret.err.error_code = <<"InvalidParameter", 3>>

\* C18: start() makes exactly one native call, the instrument's configure
\* with 1 as its last argument, and stop() the same call with 0, both with
\* the session identifier held by the handle the view was made from.
C18_StartStopConfigure ==
    inst.op \in {"start", "stop"} =>
        /\ Len(inst.calls) = 1
        /\ inst.calls[1].fn =
              (CASE inst.kind = "Oscilloscope" -> "FDwfAnalogInConfigure"
                 [] inst.kind = "LogicAnalyzer" -> "FDwfDigitalInConfigure"
                 [] inst.kind = "PatternGenerator" -> "FDwfDigitalOutConfigure")
        /\ inst.calls[1].args[1] = Unwrapped(inst.handle)
        /\ inst.calls[1].args[Len(inst.calls[1].args)] = (IF inst.op = "start" THEN 1 ELSE 0)
        /\ Len(inst.calls[1].args) = (IF inst.kind = "PatternGenerator" THEN 2 ELSE 3)
        /\ \A s \in Sessions \ {Unwrapped(inst.handle)} : inst.dev[s] = inst.before[s]

C18_Witness ==
    /\ inst.op = "stop"
    /\ inst.ret.ok
    /\ Unwrapped(inst.handle) = 2
    /\ inst.before[2].run = 1
    /\ inst.dev[2].run = 0

\* C19: state() makes exactly one native call, the status query of its
\* instrument with the read-data argument 0, leaves every instrument as it
\* was (no samples transferred) and, when it returns a state, returns the
\* one the device reports at that call; the status query with the read-data
\* argument 1 is made by fetch() and by nothing else.
C19_StateIsPureQuery ==
    /\ inst.op = "state" =>
          /\ Len(inst.calls) = 1
          /\ inst.calls[1].fn =
                (CASE inst.kind = "Oscilloscope" -> "FDwfAnalogInStatus"
                   [] inst.kind = "LogicAnalyzer" -> "FDwfDigitalInStatus"
                   [] inst.kind = "PatternGenerator" -> "FDwfDigitalOutStatus")
          /\ inst.calls[1].args[1] = Unwrapped(inst.handle)
          /\ inst.kind # "PatternGenerator" => inst.calls[1].args = <<Unwrapped(inst.handle), 0>>
          /\ inst.dev = inst.before
          /\ (inst.ret.ok /\ inst.kind = "Oscilloscope") =>
                inst.ret = TryFrom("InstrumentState", inst.before[Unwrapped(inst.handle)].status)
          /\ (inst.ret.ok /\ inst.before[Unwrapped(inst.handle)].status \in KnownWires("InstrumentState")) =>
                inst.ret = TryFrom("InstrumentState", inst.before[Unwrapped(inst.handle)].status)
    /\ inst.op = "fetch" =>
          /\ Len(inst.calls) = 1
          /\ inst.calls[1] = [fn |-> "FDwfAnalogInStatus", args |-> <<Unwrapped(inst.handle), 1>>]
    /\ \A i \in 1..Len(inst.calls) :
          (inst.calls[i].fn \in ReadDataStatusFns /\ inst.calls[i].args[2] # 0) => inst.op = "fetch"
    /\ \A s \in DOMAIN inst.dev :
          inst.dev[s].transfers # inst.before[s].transfers => inst.op = "fetch"

C19_Witness ==
    /\ inst.op = "state"
    /\ inst.n = 2
    /\ inst.before[inst.device_handle].status = 5
    /\ inst.ret = [ok |-> TRUE, val |-> "Prefill"]
    /\ inst.dev[inst.device_handle].run = 1

\* C30: in the supported-set built from a mask, a variant whose wire value k
\* is not 0 has its field true only if bit k of the mask is set; the other
\* bits of the mask, declared or not, do not make it supported.
C30_SupportedOnlyIfBitSet ==
    sup.stage = "built" =>
        \A i \in 1..Len(TableOf(sup.ty)) :
            (TableOf(sup.ty)[i][2] # 0 /\ sup.set[TableOf(sup.ty)[i][1]]) =>
                Bit(sup.mask, TableOf(sup.ty)[i][2])

C30_Witness ==
    /\ sup.stage = "built"
    /\ sup.mask > 0
    /\ \A i \in 1..Len(TableOf(sup.ty)) : ~Bit(sup.mask, TableOf(sup.ty)[i][2])
    /\ \E i \in 1..Len(TableOf(sup.ty)) :
          TableOf(sup.ty)[i][2] # 0 /\ ~sup.set[TableOf(sup.ty)[i][1]]

AcquisitionKinds == {"Oscilloscope", "LogicAnalyzer"}

\* C21: every acquisition instrument has fetch(), and a fetch() whose native
\* status query succeeds while the device reports a state other than Done
\* returns Ok with that state, not an error.
C21_FetchBeforeDoneIsOk ==
    (inst.stage = "view" /\ inst.kind \in AcquisitionKinds) =>
        /\ "fetch" \in OpsOf(inst.kind)
        /\ (/\ inst.op = "fetch"
            /\ inst.res # 0
            /\ inst.before[inst.device_handle].status \in KnownWires("InstrumentState") \ {2}) =>
              /\ inst.ret.ok
              /\ inst.ret.val # "Done"

\* C21, the part of it that holds: on the oscilloscope, a fetch() whose native
\* status query succeeds while the device reports a declared state other than
\* Done returns Ok with that state and fetches no error.
C21_OscilloscopeFetchBeforeDone ==
    (/\ inst.kind = "Oscilloscope"
     /\ inst.op = "fetch"
     /\ inst.res # 0
     /\ inst.before[inst.device_handle].status \in KnownWires("InstrumentState") \ {2}) =>
        /\ inst.ret = TryFrom("InstrumentState", inst.before[inst.device_handle].status)
        /\ inst.ret.ok
        /\ inst.ret.val # "Done"
        /\ inst.errcalls = <<>>

\* C25: a failing start(), stop(), reset(), state() or fetch() has made its
\* native call once, then the retrieval of the error code and of the error
\* message and no other native call, and returns the structured error built
\* from them.
C25_FailureMakesNoFurtherCall ==
    (inst.op \in {"start", "stop", "reset", "state", "fetch"} /\ inst.res = 0) =>
        /\ inst.calls = <<[fn |-> MethodOf(inst.kind, inst.op).fn,
                           args |-> inst.calls[1].args]>>
        /\ inst.errcalls = <<"FDwfGetLastError", "FDwfGetLastErrorMsg">>
        /\ ~inst.ret.ok
        /\ \E slot \in FailSlots :
              inst.ret.err = [error_code |-> ErrorCodeOf(slot.code), reason |-> slot.msg]

C25_Witness ==
    /\ inst.op = "start"
    /\ inst.res = 0
    /\ inst.n = 2
    /\ inst.ret.err.error_code = <<"ApiLockTimeout">>
    /\ inst.dev[inst.device_handle].run = 1

\* C26: no view and no Channel makes a native call with a session identifier
\* that close or drop of the handle has released.
C26_NoCallAfterRelease ==
    inst.op \notin {"none", "close"} =>
        \A i \in 1..Len(inst.calls) : inst.calls[i].args[1] \notin inst.released

C26_Witness ==
    /\ inst.released # {}
    /\ inst.handle = None
    /\ inst.op = "close"
    /\ inst.n = 2
    /\ inst.kind = "Oscilloscope"

\* C28: an open or open_with_config that returns an error has made no
\* DeviceHandle and called no release; when its is-opened query failed, it
\* returns that call's error and has not called the native open. Every
\* DeviceHandle there is came from a native open that succeeded, and the only
\* identifier ever released for a handle is the one that open returned.
C28_FailedOpenMakesNoHandle ==
    /\ (IsOpenOp(ev.op) /\ ev.outcome # "ok") =>
          /\ ev.outcome = "err"
          /\ ev.h = 0
          /\ ev.was = NoHandle
          /\ Releases(ev.calls) = {}
          /\ ~ev.calls[1].ok =>
                /\ \A i \in 1..Len(ev.calls) : ~IsNativeOpen(ev.calls[i].fn)
                /\ ev.error_code = ErrorCodeOf(ev.calls[1].slot.code)
                /\ ev.reason = ev.calls[1].slot.msg
    /\ IsOpenOp(ev.op) =>
          (ev.outcome = "ok" <=>
              \E i \in 1..Len(ev.calls) : IsNativeOpen(ev.calls[i].fn) /\ ev.calls[i].ok)
    /\ \A h \in Handles :
          /\ handles[h].state = "owned" => handles[h].hid # 0
          /\ \A i \in 1..Len(handles[h].closeIds) : handles[h].closeIds[i] = handles[h].hid

\* C28, its case: the is-opened query said "not opened", the native open
\* failed, and there is no handle.
C28_Witness ==
    /\ ev.op = "open_with_config" /\ ev.outcome = "err"
    /\ ev.calls[1].ok /\ ev.calls[1].val = 0
    /\ ev.calls[2].fn = "FDwfDeviceConfigOpen" /\ ~ev.calls[2].ok
    /\ \A h \in Handles : handles[h].state = "none"

\* C29: an open is rejected with AlreadyOpened only while a session is open
\* on its index, and a close or drop that succeeds leaves none open: after a
\* successful release the next open on the index is not rejected with
\* AlreadyOpened.
C29_ReleaseGivesBackExclusivity ==
    /\ (IsOpenOp(ev.op) /\ ev.error_code = <<"AlreadyOpened">>) => nativeOpen[ev.dev] # 0
    /\ (ev.op \in ReleaseOps /\ ev.outcome = "ok" /\ IsSome(ev.before.handle)) =>
          /\ nativeOpen[ev.dev] = 0
          /\ LiveOn(ev.dev) = {}

\* C29, its case: a handle of the index was released (it is still there,
\* empty, its identifier released once) and the open that followed succeeded.
C29_Witness ==
    /\ ev.op = "open" /\ ev.outcome = "ok"
    /\ Live(ev.h)
    /\ \E h \in Handles \ {ev.h} :
          /\ handles[h].state = "owned"
          /\ handles[h].dev = ev.dev
          /\ ~IsSome(handles[h].handle)
          /\ handles[h].closeIds = <<handles[h].hid>>

\* C23: when the count query of iter_devices, made with the filter All,
\* succeeds and reports zero devices, the iterator yields nothing, nothing
\* fails, and no query about a device is made.
C23_NoDevicesIsEmpty ==
    (it.op = "iter_devices" /\ it.stage # "start" /\ ~CountQueryFailed
        /\ it.devs = <<>>) =>
        /\ it.stage # "panicked"
        /\ it.outcome = "ok"
        /\ ~it.failed
        /\ it.yielded = <<>>
        /\ it.calls = <<EnumCall>>

C23_Witness ==
    /\ it.op = "iter_devices"
    /\ it.stage = "done"
    /\ it.devs = <<>>
    /\ it.count = 0
    /\ it.yielded = <<>>
    /\ it.outcome = "ok"

\* C24: when a native call of an operation fails (or the device type code
\* is not a declared one), the operation returns the structured error to its
\* caller: it does not abort.
C24_FailureIsReturned ==
    it.failed => it.outcome = "err"

\* The exact value of len * 8 / bitrate, on three digits (no 32-bit limit).
ExactTimes(len, k) ==
    LET lo == len[3] * k
        hi == len[2] * k + (lo \div Limb)
        top == len[1] * k + (hi \div Limb)
    IN  <<top, hi % Limb, lo % Limb>>

ExactDiv(n, k) ==
    LET top == n[1] \div k
        r1 == ((n[1] % k) * Limb) + n[2]
        r2 == ((r1 % k) * Limb) + n[3]
    IN  <<top, r1 \div k, r2 \div k>>

ExactSampleCount(len, wire) == ExactDiv(ExactTimes(len, 8), wire)

\* C27: for every bitrate and every data length, set_play_data gives the
\* device a sample count equal to data.len() * 8 / bitrate, and computing it
\* neither wraps nor overflows the 32-bit integer.
C27_SampleCountExact ==
    play.stage = "done" =>
        /\ play.outcome # "panic"
        /\ play.called
        /\ <<0>> \o play.sample_count = ExactSampleCount(play.len, play.wire)

\* C27, the part that holds: when data.len() * 8 / bitrate and the product
\* computed on the way both fit 32 bits, the device gets exactly that count.
C27_SampleCountExactInRange ==
    (play.stage = "done" /\ play.len[1] = 0
        /\ (play.bitrate # "Sixteen" =>
               ExactSampleCount(play.len, Into("Bitrate", play.bitrate))[1] = 0)) =>
        /\ play.outcome # "panic"
        /\ play.called
        /\ <<0>> \o play.sample_count = ExactSampleCount(play.len, play.wire)

C27_InRangeWitness ==
    /\ play.stage = "done"
    /\ play.called
    /\ play.len = <<0, 8191, Limb - 1>>
    /\ play.bitrate = "One"
    /\ play.sample_count = <<Limb - 1, Limb - 8>>

====
